---- MODULE Spec2Model ----
(***************************************************************************)
(* Model of streamlit_app.py: the city searchbox helper, the sidebar       *)
(* inputs, the "generate itinerary" block, the session-state slots and the *)
(* display block.  One script run is a chain of steps ordered by pc; the   *)
(* external providers (geocoder, generative model, router) answer          *)
(* nondeterministically.                                                   *)
(*                                                                         *)
(* Python values: None is the record None, any other value v is Some(v);   *)
(* a dict is a record whose DOMAIN is its key set, so a missing key is a   *)
(* missing field.  Coordinates are integers (degrees).  The duration       *)
(* slider always holds a value in 1..7 and is used only in the prompt      *)
(* text, so it is not part of the state.                                   *)
(***************************************************************************)
EXTENDS Integers, Sequences, FiniteSets, TLC

\* ---------------------------------------------------------------- bounds
MaxLen    == 3   \* longest search string typed into the searchbox
MaxPlaces == 2   \* longest list the generative model replies with
MaxRuns   == 2   \* generate clicks in one session

\* ------------------------------------------------------- program constants
MinSearchLen == 3

\* ------------------------------------------------------------ Python values
None == [isNone |-> TRUE]
Some(v) == [isNone |-> FALSE, val |-> v]

\* bool(v) for a slot holding None or a list
Truthy(v) == (~v.isNone) /\ (v.val # <<>>)

\* d[k] = v on a dict
Put(d, k, v) == [x \in (DOMAIN d) \cup {k} |-> IF x = k THEN v ELSE d[x]]

\* ------------------------------------------------------------- input pools
Letters == {"L"}

RECURSIVE StringsUpTo(_)
StringsUpTo(n) ==
    IF n = 0 THEN {<<>>}
    ELSE LET S == StringsUpTo(n - 1)
         IN  S \cup {Append(s, c) : s \in {t \in S : Len(t) = n - 1}, c \in Letters}

\* 'properties' objects of geocoder features
Paris == [formatted |-> "Paris", lat |-> 48, lon |-> 2]
Lima  == [formatted |-> "Lima", lat |-> -12, lon |-> -77]

\* replies of the geocoding provider: transport/parse failure or a feature list
GeocoderReplies == {[ok |-> FALSE, features |-> <<>>],
                    [ok |-> TRUE, features |-> <<Paris, Lima>>]}

InterestsVals == {"", "art"}

\* objects the generative model may put in its JSON list
ItemPool == {[name |-> "Louvre", lat |-> 48, lon |-> 2],
             [name |-> "Nowhere", lat |-> 95, lon |-> 2],
             [name |-> "NoLat", lon |-> 2],
             [name |-> "NoLon", lat |-> 48]}

RECURSIVE ListsUpTo(_, _)
ListsUpTo(S, n) ==
    IF n = 0 THEN {<<>>}
    ELSE LET L == ListsUpTo(S, n - 1)
         IN  L \cup {Append(l, e) : l \in {t \in L : Len(t) = n - 1}, e \in S}

\* replies of the generative model: provider error, text that is not JSON,
\* or text that parses to a list of objects
GeneratorReplies ==
    {[kind |-> "error", list |-> <<>>], [kind |-> "notjson", list |-> <<>>]}
    \cup {[kind |-> "json", list |-> l] : l \in ListsUpTo(ItemPool, MaxPlaces)}

\* geometries (features[0].geometry.coordinates) the routing provider may
\* send: lists of line strings of (lon, lat) pairs
GeometryPool == {<<>>,
                 << <<>> >>,
                 << <<<<2, 48>>, <<3, 49>>>> >>,
                 << <<<<2, 48>>, <<3, 49>>>>, <<<<3, 49>>, <<4, 50>>>> >>}

\* replies of the routing provider: transport error, JSON without usable
\* 'features', or features[0].geometry.coordinates
RouterReplies ==
    {[kind |-> "error", coordinates |-> <<>>], [kind |-> "nofeatures", coordinates |-> <<>>]}
    \cup {[kind |-> "geometry", coordinates |-> g] : g \in GeometryPool}

\* ------------------------------------------------------------------- state
VARIABLES
    searchterm,          \* last string handed to get_city_suggestions
    suggestions,         \* what get_city_suggestions returned for it
    geocodeCalls,        \* requests.get calls made by that invocation
    selected_city_data,  \* st_searchbox value: None or Some(properties)
    interests,           \* text input value
    generate_btn,        \* st.button value of the current script run
    session_state,       \* st.session_state: dict of slots
    writer,              \* per slot, the generate run that last wrote it
    pc,                  \* position of the script run
    run,                 \* number of the current / last generate run
    places,              \* local 'places'
    route_reply,         \* reply the router gave to this run
    route_geom,          \* local 'route_geom'
    failedAt,            \* where this run raised into the except clause
    messages,            \* st.error / st.info calls of this run, in order
    genCalls,            \* model.generate_content calls of this run
    routeCalls,          \* get_route calls of this run
    pre,                 \* session_state when this run started
    drawn                \* polyline handed to folium by the display block

inputs  == <<searchterm, suggestions, geocodeCalls, selected_city_data, interests>>
locals  == <<places, route_reply, route_geom, failedAt, genCalls, routeCalls>>
vars == <<searchterm, suggestions, geocodeCalls, selected_city_data,
          interests, generate_btn, session_state, writer, pc, run, places,
          route_reply, route_geom, failedAt, messages, genCalls, routeCalls,
          pre, drawn>>

Slots == {"itinerary", "route", "city_center", "city_name"}

\* ---------------------------------------------------------- pure functions

\* get_city_suggestions with the length test off by one (len < 2)
get_city_suggestions_ShortGuard(term, reply) ==
    IF term = <<>> \/ Len(term) < MinSearchLen - 1
    THEN [result |-> <<>>, calls |-> 0]
    ELSE IF reply.ok
         THEN [result |-> reply.features, calls |-> 1]
         ELSE [result |-> <<>>, calls |-> 1]

\* get_city_suggestions(searchterm) -> <<result, network calls made>>
get_city_suggestions(term, reply) ==
    IF term = <<>> \/ Len(term) < MinSearchLen
    THEN [result |-> <<>>, calls |-> 0]
    ELSE IF reply.ok
         THEN [result |-> reply.features, calls |-> 1]
         ELSE [result |-> <<>>, calls |-> 1]

\* get_route(waypoints): res['features'][0]['geometry']['coordinates'][0]
get_route(reply) ==
    IF reply.kind # "geometry" \/ reply.coordinates = <<>>
    THEN [raised |-> TRUE, value |-> <<>>]
    ELSE [raised |-> FALSE, value |-> reply.coordinates[1]]

\* [[p['lat'], p['lon']] for p in places] raises KeyError on a missing key
HasCoords(p) == {"lat", "lon"} \subseteq DOMAIN p

\* clean_route that forgets to swap the pairs
clean_route_NoSwap(r) == r

\* clean_route = [[p[1], p[0]] for p in route]
clean_route(r) == [i \in 1..Len(r) |-> <<r[i][2], r[i][1]>>]

\* session state initialisation
SessionInit == [itinerary |-> None, route |-> None, city_center |-> None]

Init ==
    /\ searchterm = <<>>
    /\ suggestions = <<>>
    /\ geocodeCalls = 0
    /\ selected_city_data = None
    /\ interests = "art"
    /\ generate_btn = FALSE
    /\ session_state = SessionInit
    /\ writer = [k \in DOMAIN SessionInit |-> 0]
    /\ pc = "idle"
    /\ run = 0
    /\ places = None
    /\ route_reply = None
    /\ route_geom = None
    /\ failedAt = "none"
    /\ messages = <<>>
    /\ genCalls = 0
    /\ routeCalls = 0
    /\ pre = SessionInit
    /\ drawn = None


\* --------------------------------------------------------------- the steps

\* a script run starts from the top with fresh locals
StartRun(btn) ==
    /\ generate_btn' = btn
    /\ pc' = "guard"
    /\ places' = None
    /\ route_reply' = None
    /\ route_geom' = None
    /\ failedAt' = "none"
    /\ messages' = <<>>
    /\ genCalls' = 0
    /\ routeCalls' = 0
    /\ pre' = session_state
    /\ drawn' = None

\* the searchbox calls get_city_suggestions with what the user typed
Search ==
    /\ pc = "idle"
    /\ \E term \in StringsUpTo(MaxLen), reply \in GeocoderReplies :
         LET r == get_city_suggestions(term, reply)
         IN  /\ searchterm' = term
             /\ suggestions' = r.result
             /\ geocodeCalls' = r.calls
    /\ UNCHANGED <<selected_city_data, interests, generate_btn,
                   session_state, writer, pc, run, places, route_reply,
                   route_geom, failedAt, messages, genCalls, routeCalls,
                   pre, drawn>>

\* the user picks one of the offered cities, or clears the searchbox
SelectCity ==
    /\ pc = "idle"
    /\ \E c \in {Some(suggestions[i]) : i \in 1..Len(suggestions)} \cup {None} :
         /\ c # selected_city_data
         /\ selected_city_data' = c
    /\ StartRun(FALSE)
    /\ UNCHANGED <<searchterm, suggestions, geocodeCalls, interests,
                   session_state, writer, run>>

SetInterests ==
    /\ pc = "idle"
    /\ \E s \in InterestsVals : s # interests /\ interests' = s
    /\ StartRun(FALSE)
    /\ UNCHANGED <<searchterm, suggestions, geocodeCalls, selected_city_data,
                   session_state, writer, run>>

\* the user presses "Generate Smart Route"
Click ==
    /\ pc = "idle"
    /\ run < MaxRuns
    /\ run' = run + 1
    /\ StartRun(TRUE)
    /\ UNCHANGED <<inputs, session_state, writer>>

\* if generate_btn and selected_city_data:
Guard ==
    /\ pc = "guard"
    /\ pc' = IF generate_btn /\ ~selected_city_data.isNone THEN "generate" ELSE "display"
    /\ UNCHANGED <<inputs, generate_btn, session_state, writer, run, locals,
                   messages, pre, drawn>>

\* response = model.generate_content(...); places = json.loads(response.text)
Generate ==
    /\ pc = "generate"
    /\ genCalls' = genCalls + 1
    /\ \E reply \in GeneratorReplies :
         CASE reply.kind = "error" ->
                /\ failedAt' = "provider" /\ pc' = "except" /\ places' = places
           [] reply.kind = "notjson" ->
                /\ failedAt' = "parse" /\ pc' = "except" /\ places' = places
           [] OTHER ->
                /\ places' = Some(reply.list) /\ pc' = "waypoints"
                /\ failedAt' = failedAt
    /\ UNCHANGED <<inputs, generate_btn, session_state, writer, run,
                   route_reply, route_geom, messages, routeCalls, pre, drawn>>

\* Waypoints with the itinerary assigned to session state before the
\* comprehension that reads p['lat'], p['lon']
Waypoints_StoresFirst ==
    /\ pc = "waypoints"
    /\ session_state' = Put(session_state, "itinerary", places)
    /\ writer' = Put(writer, "itinerary", run)
    /\ IF \A i \in 1..Len(places.val) : HasCoords(places.val[i])
       THEN pc' = "route" /\ failedAt' = failedAt
       ELSE pc' = "except" /\ failedAt' = "fields"
    /\ UNCHANGED <<inputs, generate_btn, run, places, route_reply, route_geom,
                   messages, genCalls, routeCalls, pre, drawn>>

\* route_points = [[lat, lon]] + [[p['lat'], p['lon']] for p in places]
Waypoints ==
    /\ pc = "waypoints"
    /\ IF \A i \in 1..Len(places.val) : HasCoords(places.val[i])
       THEN pc' = "route" /\ failedAt' = failedAt
       ELSE pc' = "except" /\ failedAt' = "fields"
    /\ UNCHANGED <<inputs, generate_btn, session_state, writer, run, places,
                   route_reply, route_geom, messages, genCalls, routeCalls,
                   pre, drawn>>

\* Route with the itinerary assigned to session state before get_route
Route_StoresFirst ==
    /\ pc = "route"
    /\ routeCalls' = routeCalls + 1
    /\ session_state' = Put(session_state, "itinerary", places)
    /\ writer' = Put(writer, "itinerary", run)
    /\ \E reply \in RouterReplies :
         LET r == get_route(reply)
         IN  /\ route_reply' = Some(reply)
             /\ IF r.raised
                THEN /\ failedAt' = "route" /\ pc' = "except"
                     /\ route_geom' = route_geom
                ELSE /\ route_geom' = Some(r.value) /\ pc' = "save_itinerary"
                     /\ failedAt' = failedAt
    /\ UNCHANGED <<inputs, generate_btn, run, places, messages, genCalls,
                   pre, drawn>>

\* route_geom = get_route(route_points)
Route ==
    /\ pc = "route"
    /\ routeCalls' = routeCalls + 1
    /\ \E reply \in RouterReplies :
         LET r == get_route(reply)
         IN  /\ route_reply' = Some(reply)
             /\ IF r.raised
                THEN /\ failedAt' = "route" /\ pc' = "except"
                     /\ route_geom' = route_geom
                ELSE /\ route_geom' = Some(r.value) /\ pc' = "save_itinerary"
                     /\ failedAt' = failedAt
    /\ UNCHANGED <<inputs, generate_btn, session_state, writer, run, places,
                   messages, genCalls, pre, drawn>>

\* st.session_state.<slot> = value
Store(slot, value, next) ==
    /\ session_state' = Put(session_state, slot, value)
    /\ writer' = Put(writer, slot, run)
    /\ pc' = next
    /\ UNCHANGED <<inputs, generate_btn, run, locals, messages, pre, drawn>>

SaveItinerary ==
    /\ pc = "save_itinerary"
    /\ Store("itinerary", places, "save_route")

SaveRoute ==
    /\ pc = "save_route"
    /\ Store("route", route_geom, "save_city_center")

SaveCityCenter ==
    /\ pc = "save_city_center"
    /\ Store("city_center",
             Some(<<selected_city_data.val.lat, selected_city_data.val.lon>>),
             "save_city_name")

\* the save block without its last assignment
SaveCityName_Skipped ==
    /\ pc = "save_city_name"
    /\ pc' = "display"
    /\ UNCHANGED <<inputs, generate_btn, session_state, writer, run, locals,
                   messages, pre, drawn>>

SaveCityName ==
    /\ pc = "save_city_name"
    /\ Store("city_name", Some(selected_city_data.val.formatted), "display")

\* except Exception as e: st.error(...)
Except ==
    /\ pc = "except"
    /\ messages' = Append(messages, "error")
    /\ pc' = "display"
    /\ UNCHANGED <<inputs, generate_btn, session_state, writer, run, locals,
                   pre, drawn>>

\* if st.session_state.itinerary: map, polyline, markers ... else: st.info
Display ==
    /\ pc = "display"
    /\ pc' = "done"
    /\ IF Truthy(session_state.itinerary)
       THEN IF "city_name" \notin DOMAIN session_state
            THEN /\ messages' = Append(messages, "exception")
                 /\ drawn' = None
            ELSE /\ messages' = messages
                 /\ drawn' = IF Truthy(session_state.route)
                             THEN Some(clean_route(session_state.route.val))
                             ELSE None
       ELSE /\ messages' = Append(messages, "info")
            /\ drawn' = None
    /\ UNCHANGED <<inputs, generate_btn, session_state, writer, run, locals, pre>>

\* the script run ends; the page waits for the next interaction
Finish ==
    /\ pc = "done"
    /\ pc' = "idle"
    /\ generate_btn' = FALSE
    /\ places' = None
    /\ route_reply' = None
    /\ route_geom' = None
    /\ failedAt' = "none"
    /\ messages' = <<>>
    /\ genCalls' = 0
    /\ routeCalls' = 0
    /\ pre' = session_state
    /\ drawn' = None
    /\ UNCHANGED <<inputs, session_state, writer, run>>

Next ==
    \/ Search
    \/ SelectCity
    \/ SetInterests
    \/ Click
    \/ Guard
    \/ Generate
    \/ Waypoints
    \/ Route
    \/ SaveItinerary
    \/ SaveRoute
    \/ SaveCityCenter
    \/ SaveCityName
    \/ Except
    \/ Display
    \/ Finish

Spec == Init /\ [][Next]_vars

\* Streamlit commands and session-state accesses at which a pending rerun
\* request stops the running script
YieldPoints == {"generate", "save_itinerary", "save_route", "save_city_center",
                "save_city_name", "except", "display"}

\* a second press of the button while a generate run has not completed:
\* the button is not disabled, the running script is stopped at its next
\* Streamlit call and the script starts again from the top
RapidClick ==
    /\ generate_btn
    /\ pc \in YieldPoints
    /\ run < MaxRuns
    /\ run' = run + 1
    /\ StartRun(TRUE)
    /\ UNCHANGED <<inputs, session_state, writer>>

NextRapid ==
    \/ Next
    \/ RapidClick

SpecRapid == Init /\ [][NextRapid]_vars

\* ------------------------------------------------------------- properties

Count(seq, m) == Len(SelectSeq(seq, LAMBDA x : x = m))

\* a point of interest within the coordinate ranges
InRange(p) == p.lat \in -90..90 /\ p.lon \in -180..180

\* every (lon, lat) pair of a line turned into (lat, lon)
SwapPairs(line) == [i \in 1..Len(line) |-> <<line[i][2], line[i][1]>>]

\* all slots were last written by one and the same generate run
OneRun ==
    \/ \A k \in DOMAIN writer : writer[k] = 0
    \/ /\ DOMAIN writer = Slots
       /\ \E r \in 1..MaxRuns : \A k \in Slots : writer[k] = r

\* C1: a generate run whose suggestion step fails (provider error, reply
\* that is not JSON, item without 'lat'/'lon') ends with session state equal
\* to what it was before the run and with exactly one error message.
C1_FailedSuggestionKeepsTrip ==
    (pc \in {"display", "done"} /\ failedAt \in {"provider", "parse", "fields"})
        => (session_state = pre /\ Count(messages, "error") = 1)

\* a failed suggestion step after a trip had been saved
C1_Witness ==
    /\ pc = "done"
    /\ failedAt \in {"provider", "parse", "fields"}
    /\ Truthy(pre.itinerary)
    /\ "city_name" \in DOMAIN pre

\* C2 (as claimed): when the generator returned valid points of interest and
\* the router call fails, the run still ends Ready: the stops are stored with
\* an empty route, a warning is shown and no error.
C2_RoutingFailureIsSoft ==
    (/\ pc = "done"
     /\ ~route_reply.isNone
     /\ get_route(route_reply.val).raised
     /\ places.val # <<>>
     /\ \A i \in 1..Len(places.val) : InRange(places.val[i]))
        => (/\ session_state.itinerary = places
            /\ ~Truthy(session_state.route)
            /\ writer["itinerary"] = run
            /\ Count(messages, "warning") = 1
            /\ Count(messages, "error") = 0)

\* C3 (as claimed): every stop of the saved itinerary has latitude in
\* [-90,90] and longitude in [-180,180].
C3_SavedStopsInRange ==
    (~session_state.itinerary.isNone)
        => \A i \in 1..Len(session_state.itinerary.val) :
               InRange(session_state.itinerary.val[i])

\* C4 (as claimed): a reply that parses to an empty list aborts the run
\* before the routing call, shows one error and leaves session state as it
\* was.
C4_EmptyListAbortsBeforeRouting ==
    (~places.isNone /\ places.val = <<>>)
        => (/\ routeCalls = 0
            /\ pc = "done" => (session_state = pre /\ Count(messages, "error") = 1))

C6_GenerateNeedsAllInputs ==
    (genCalls > 0) => (~selected_city_data.isNone /\ interests # "")

C8_NoInterleaving ==
    (pc = "display")
        => \/ \A k \in DOMAIN writer : writer[k] = 0
           \/ \E r \in 1..MaxRuns : \A k \in Slots : k \in DOMAIN writer /\ writer[k] = r

\* C9: a search string that is empty or shorter than 3 characters gets an
\* empty list and no request is sent to the geocoding provider.
C9_ShortSearchNoCall ==
    (Len(searchterm) < 3) => (suggestions = <<>> /\ geocodeCalls = 0)

\* get_city_suggestions was called with a two-character string
C9_Witness == Len(searchterm) = 2

====
